---------------------------- MODULE Spec2Model ----------------------------
(***************************************************************************)
(* Model of Bio/SubsMat/__init__.py: the SeqMat half-matrix class and the  *)
(* pipeline that turns an accepted-replacement matrix into a log-odds      *)
(* matrix.                                                                 *)
(*                                                                         *)
(* Letters are the integers 1..NumLetters (1 = 'A', 2 = 'C', ...), ordered *)
(* as Python orders the characters.  A matrix key is a pair <<a, b>>.      *)
(* Numbers are exact rationals <<n, d>> in lowest terms with d > 0; the    *)
(* pair <<0, 0>> is no number and stands for a raised KeyError.            *)
(* Python dicts and Alphabet objects live in two heaps (dicts, alphs) and  *)
(* are referred to by their index, so that copying and sharing differ.     *)
(***************************************************************************)
EXTENDS Integers, Sequences, FiniteSets, TLC

\* Bounds of the model.
NumLetters == 2
MaxVal == 2
MaxWrites == 1

\* Matrix types (module constants).
NOTYPE == 0
ACCREP == 1
OBSFREQ == 2
SUBS == 3
EXPFREQ == 4
LO == 5

Letters == 1..NumLetters
Pairs == Letters \X Letters

-----------------------------------------------------------------------------
(* Exact arithmetic standing for Python's float arithmetic. *)

RECURSIVE Gcd(_, _)
Gcd(a, b) == IF b = 0 THEN a ELSE Gcd(b, a % b)

Abs(x) == IF x < 0 THEN -x ELSE x

Rat(n, d) ==
  LET g == Gcd(Abs(n), Abs(d))
      s == IF d < 0 THEN -1 ELSE 1
  IN <<(s * n) \div g, (s * d) \div g>>

Zero == <<0, 1>>
One == <<1, 1>>
Two == <<2, 1>>
Num(v) == <<v, 1>>
RAdd(x, y) == Rat(x[1] * y[2] + y[1] * x[2], x[2] * y[2])
RMul(x, y) == Rat(x[1] * y[1], x[2] * y[2])
\* x / y, for y # 0 (the callers raise ZeroDivisionError before dividing by 0.)
RDiv(x, y) == Rat(x[1] * y[2], x[2] * y[1])
RLess(x, y) == x[1] * y[2] < y[1] * x[2]

KeyError == <<0, 0>>

\* the one element of a set of one element; {e(x) : x \in {v}} names v once
Only(S) == CHOOSE x \in S : TRUE

-----------------------------------------------------------------------------
(* Dictionaries: functions from a finite set of keys. *)

EmptyDict == [k \in {} |-> Zero]
Keys(d) == DOMAIN d
DictSet(d, k, v) == [x \in DOMAIN d \cup {k} |-> IF x = k THEN v ELSE d[x]]
DictDel(d, k) == [x \in DOMAIN d \ {k} |-> d[x]]
DictGet(d, k) == IF k \in DOMAIN d THEN d[k] ELSE KeyError

RECURSIVE SumOver(_, _)
SumOver(d, S) ==
  IF S = {} THEN Zero
  ELSE LET k == CHOOSE x \in S : TRUE
       IN RAdd(d[k], SumOver(d, S \ {k}))

\* sum(d.values())
SumValues(d) == SumOver(d, DOMAIN d)

-----------------------------------------------------------------------------
(* Lists. *)

\* list.sort() on a list of letters
Sorted(s) == SortSeq(s, LAMBDA x, y : x < y)

\* the keys of a dict of letters, as a sorted list
RECURSIVE SortedSeqOf(_)
SortedSeqOf(S) ==
  IF S = {} THEN <<>>
  ELSE LET m == CHOOSE x \in S : \A y \in S : x <= y
       IN <<m>> \o SortedSeqOf(S \ {m})

\* list.index(x): the first position of x
Index(s, x) == CHOOSE i \in 1..Len(s) : s[i] = x /\ \A j \in 1..(i - 1) : s[j] # x

SeqSet(s) == {s[i] : i \in 1..Len(s)}

\* [<<i, j>> for i in ab_list for j in ab_list[:ab_list.index(i)+1]]
RECURSIVE LoopPairsFrom(_, _)
LoopPairsFrom(ab_list, n) ==
  IF n > Len(ab_list) THEN <<>>
  ELSE LET i == ab_list[n]
           row == [c \in 1..Index(ab_list, i) |-> <<i, ab_list[c]>>]
       IN row \o LoopPairsFrom(ab_list, n + 1)

LoopPairs(ab_list) == LoopPairsFrom(ab_list, 1)

-----------------------------------------------------------------------------
(* class SeqMat *)

NoMat == [data |-> 0, alphabet |-> 0, ab_list |-> <<>>, mat_type |-> NOTYPE,
          sum_letters |-> EmptyDict]

Entries(st, m) == st.dicts[m.data]
LettersOf(st, m) == st.alphs[m.alphabet]

\* SeqMat._alphabet_from_matrix: the sorted letters that occur in the keys
AlphabetFromMatrix(d) ==
  SortedSeqOf({k[1] : k \in DOMAIN d} \cup {k[2] : k \in DOMAIN d})

\* the size assertion of SeqMat.__init__; N*(N+1)/2 is Python 2's integer division
SizeOk(len, N) == len = N * N \/ len = (N * (N + 1)) \div 2

\* a fold that stores the sum under (j,i) and leaves (i,j) in the dict
RECURSIVE FoldLoopKeepsBoth(_, _, _)
FoldLoopKeepsBoth(d, ps, n) ==
  IF n > Len(ps) THEN [ok |-> TRUE, d |-> d]
  ELSE LET i == ps[n][1]
           j == ps[n][2]
       IN IF i = j THEN FoldLoopKeepsBoth(d, ps, n + 1)
          ELSE IF <<j, i>> \notin DOMAIN d \/ <<i, j>> \notin DOMAIN d
               THEN [ok |-> FALSE, d |-> d]
               ELSE FoldLoopKeepsBoth(DictSet(d, <<j, i>>, RAdd(d[<<j, i>>], d[<<i, j>>])),
                                      ps, n + 1)

\* a fold that deletes (i,j) and leaves the value of (j,i) as it was
RECURSIVE FoldLoopDrops(_, _, _)
FoldLoopDrops(d, ps, n) ==
  IF n > Len(ps) THEN [ok |-> TRUE, d |-> d]
  ELSE LET i == ps[n][1]
           j == ps[n][2]
       IN IF i = j THEN FoldLoopDrops(d, ps, n + 1)
          ELSE IF <<j, i>> \notin DOMAIN d \/ <<i, j>> \notin DOMAIN d
               THEN [ok |-> FALSE, d |-> d]
               ELSE FoldLoopDrops(DictDel(d, <<i, j>>), ps, n + 1)

\* SeqMat._full_to_half, the loop: [ok, d], ok false when a key is missing
\* (KeyError) and d the dict then
RECURSIVE FoldLoop(_, _, _)
FoldLoop(d, ps, n) ==
  IF n > Len(ps) THEN [ok |-> TRUE, d |-> d]
  ELSE LET i == ps[n][1]
           j == ps[n][2]
       IN IF i = j THEN FoldLoop(d, ps, n + 1)
          ELSE IF <<j, i>> \notin DOMAIN d \/ <<i, j>> \notin DOMAIN d
               THEN [ok |-> FALSE, d |-> d]
               ELSE FoldLoop(DictDel(DictSet(d, <<j, i>>, RAdd(d[<<j, i>>], d[<<i, j>>])),
                                     <<i, j>>),
                             ps, n + 1)

\* a _full_to_half that returns at once whatever the size
FullToHalfNoFold(d, letters, ab_list) == [ok |-> TRUE, d |-> d]

\* SeqMat._full_to_half
FullToHalf(d, letters, ab_list) ==
  IF Cardinality(DOMAIN d) = (Len(letters) * (Len(letters) + 1)) \div 2
  THEN [ok |-> TRUE, d |-> d]
  ELSE FoldLoop(d, LoopPairs(ab_list), 1)

\* SeqMat._init_zero
RECURSIVE InitZeroLoop(_, _, _)
InitZeroLoop(d, ps, n) ==
  IF n > Len(ps) THEN d
  ELSE InitZeroLoop(DictSet(d, <<ps[n][2], ps[n][1]>>, Zero), ps, n + 1)

InitZero(d, ab_list) == InitZeroLoop(d, LoopPairs(ab_list), 1)

\* self.data = data: the dict passed is kept, not copied
CopyDictAlias(st, dataId) == IF dataId = 0 THEN Len(st.dicts) + 1 ELSE dataId

\* self.data = copy.copy(data): the index of the new dict object
CopyDict(st, dataId) == Len(st.dicts) + 1

\* the end of SeqMat.__init__, from the size assertion on: d0 the items copied,
\* letters the letters of self.alphabet, d1 what _init_zero / _full_to_half
\* made of d0
SeqMatBuilt(st, dataId, alphId, mat_type, build_later, d0, letters, d1) ==
  LET did == CopyDict(st, dataId)
      aid == IF alphId = 0 THEN Len(st.alphs) + 1 ELSE alphId
      alphs1 == IF alphId = 0 THEN Append(st.alphs, letters)
                ELSE [st.alphs EXCEPT ![alphId] = letters]
      dicts1(d) == IF did > Len(st.dicts) THEN Append(st.dicts, d)
                   ELSE [st.dicts EXCEPT ![did] = d]
      self == [data |-> did, alphabet |-> aid, ab_list |-> Sorted(letters),
               mat_type |-> mat_type, sum_letters |-> EmptyDict]
  IN IF ~build_later /\ ~SizeOk(Cardinality(DOMAIN d0), Len(letters))
     THEN [err |-> "AssertionError", st |-> [dicts |-> dicts1(d0), alphs |-> alphs1],
           mat |-> NoMat]
     ELSE IF ~d1.ok
          THEN [err |-> "KeyError", st |-> [dicts |-> dicts1(d1.d), alphs |-> alphs1],
                mat |-> NoMat]
          ELSE [err |-> "none", st |-> [dicts |-> dicts1(d1.d), alphs |-> alphs1],
                mat |-> self]

\* SeqMat.__init__ once self.alphabet is set: _init_zero or _full_to_half
SeqMatFill(st, dataId, alphId, mat_type, build_later, d0, letters) ==
  Only({SeqMatBuilt(st, dataId, alphId, mat_type, build_later, d0, letters, d1) :
          d1 \in {IF build_later THEN [ok |-> TRUE, d |-> InitZero(d0, Sorted(letters))]
                  ELSE IF SizeOk(Cardinality(DOMAIN d0), Len(letters))
                       THEN FullToHalf(d0, letters, Sorted(letters))
                       ELSE [ok |-> FALSE, d |-> d0]}})

\* SeqMat.__init__(data, alphabet, mat_type, build_later): dataId is the dict
\* passed (0 for None; data.data when a SeqMat is passed), alphId the Alphabet
\* passed (0 for None, and then a new Alphabet with no letters is made).  When
\* the alphabet has no letters they are taken from the keys.  Gives the heaps
\* after the call, the exception raised ("none" when the constructor returns)
\* and the new object.
SeqMatInit(st, dataId, alphId, mat_type, build_later) ==
  LET d0 == IF dataId = 0 THEN EmptyDict ELSE st.dicts[dataId]
      passed == IF alphId = 0 THEN <<>> ELSE st.alphs[alphId]
  IN Only({SeqMatFill(st, dataId, alphId, mat_type, build_later, d0, letters) :
             letters \in {IF passed = <<>> THEN AlphabetFromMatrix(d0) ELSE passed}})

\* SeqMat.__getitem__ (UserDict): the stored value, or KeyError
GetItem(st, m, k) == DictGet(Entries(st, m), k)

\* a lookup with no second try: self[j,i]
PrintLookupNoFallback(st, m, i, j) == GetItem(st, m, <<j, i>>)

\* the lookup of SeqMat.print_mat: self[j,i], and on KeyError self[i,j]
PrintLookup(st, m, i, j) ==
  IF GetItem(st, m, <<j, i>>) # KeyError THEN GetItem(st, m, <<j, i>>)
  ELSE GetItem(st, m, <<i, j>>)

\* SeqMat.letter_sum
RECURSIVE LetterSumOver(_, _, _)
LetterSumOver(d, letter, S) ==
  IF S = {} THEN Zero
  ELSE LET i == CHOOSE x \in S : TRUE
           rest == LetterSumOver(d, letter, S \ {i})
       IN IF letter \in {i[1], i[2]}
          THEN IF i[1] = i[2] THEN RAdd(rest, d[i]) ELSE RAdd(rest, RDiv(d[i], Two))
          ELSE rest

LetterSum(st, m, letter) == LetterSumOver(Entries(st, m), letter, DOMAIN Entries(st, m))

\* SeqMat.all_letters_sum: the new sum_letters
AllLettersSum(st, m) ==
  [l \in DOMAIN m.sum_letters \cup SeqSet(LettersOf(st, m)) |->
     IF l \in SeqSet(LettersOf(st, m)) THEN LetterSum(st, m, l) ELSE m.sum_letters[l]]


-----------------------------------------------------------------------------
(* The pipeline.  Every stage gives [err, st, mat]: the exception raised     *)
(* ("none" when it returns), the heaps after the call and the object built.  *)

Fail(e, st) == [err |-> e, st |-> st, mat |-> NoMat]

\* the loop of _build_obs_freq_mat: obs_freq_mat[i] = acc_rep_mat[i]/sum
RECURSIVE ObsLoop(_, _, _, _, _)
ObsLoop(st, accId, obsId, S, sum) ==
  IF S = {} THEN st
  ELSE LET i == CHOOSE x \in S : TRUE
       IN ObsLoop([st EXCEPT !.dicts[obsId] = DictSet(@, i, RDiv(st.dicts[accId][i], sum))],
                  accId, obsId, S \ {i}, sum)

\* a total that counts the entries
ObsTotalCount(st, acc_rep) == Num(Cardinality(Keys(Entries(st, acc_rep))))

\* the total _build_obs_freq_mat divides by
ObsTotal(st, acc_rep) == SumValues(Entries(st, acc_rep))

\* a _build_obs_freq_mat that returns the matrix of zeros when the total is 0
ObsFillZeroTotal(st, acc_rep, c) ==
  IF ObsTotal(st, acc_rep) = Zero
  THEN [err |-> "none", st |-> c.st, mat |-> [c.mat EXCEPT !.mat_type = OBSFREQ]]
  ELSE [err |-> "none",
        st |-> ObsLoop(c.st, acc_rep.data, c.mat.data, Keys(Entries(st, acc_rep)),
                       ObsTotal(st, acc_rep)),
        mat |-> [c.mat EXCEPT !.mat_type = OBSFREQ]]

\* _build_obs_freq_mat once obs_freq_mat = SeqMat(alphabet=..., build_later=1)
\* is built (c): the loop and the type
ObsFill(st, acc_rep, c) ==
  IF Keys(Entries(st, acc_rep)) # {} /\ ObsTotal(st, acc_rep) = Zero
  THEN Fail("ZeroDivisionError", c.st)
  ELSE [err |-> "none",
        st |-> ObsLoop(c.st, acc_rep.data, c.mat.data, Keys(Entries(st, acc_rep)),
                       ObsTotal(st, acc_rep)),
        mat |-> [c.mat EXCEPT !.mat_type = OBSFREQ]]

\* _build_obs_freq_mat(acc_rep_mat)
BuildObsFreqMat(st, acc_rep) ==
  Only({ObsFill(st, acc_rep, c) : c \in {SeqMatInit(st, 0, acc_rep.alphabet, NOTYPE, TRUE)}})

\* FreqTable.FreqTable(in_dict, FREQ) with no alphabet passed: the table holds
\* the items of in_dict, its alphabet is a new Alphabet of the sorted keys.
NoTable == [table |-> EmptyDict, alphabet |-> 0]

FreqTableInit(st, in_dict) ==
  [st |-> [st EXCEPT !.alphs = Append(@, SortedSeqOf(DOMAIN in_dict))],
   tab |-> [table |-> in_dict, alphabet |-> Len(st.alphs) + 1]]

\* a share that is the whole cell for both letters of an off-diagonal cell
TableShareWhole(v, i) == v

\* the share of cell i that _exp_freq_table_from_obs_freq adds to a letter of i
TableShare(v, i) == IF i[1] = i[2] THEN v ELSE RDiv(v, Two)

\* the second loop of _exp_freq_table_from_obs_freq: [ok, t], ok false when a
\* letter of a key is not in the table (KeyError)
RECURSIVE TableLoop(_, _, _)
TableLoop(t, d, S) ==
  IF S = {} THEN [ok |-> TRUE, t |-> t]
  ELSE LET i == CHOOSE x \in S : TRUE
       IN IF i[1] \notin DOMAIN t \/ i[2] \notin DOMAIN t THEN [ok |-> FALSE, t |-> t]
          ELSE IF i[1] = i[2]
               THEN TableLoop([t EXCEPT ![i[1]] = RAdd(@, TableShare(d[i], i))], d, S \ {i})
               ELSE TableLoop([t EXCEPT ![i[1]] = RAdd(@, TableShare(d[i], i)),
                                        ![i[2]] = RAdd(@, TableShare(d[i], i))], d, S \ {i})

\* _exp_freq_table_from_obs_freq(obs_freq_mat): [err, st, tab]
ExpFreqTableFromObsFreq(st, obs) ==
  Only({IF ~r.ok THEN [err |-> "KeyError", st |-> st, tab |-> NoTable]
        ELSE [err |-> "none"] @@ FreqTableInit(st, r.t) :
          r \in {TableLoop([l \in SeqSet(LettersOf(st, obs)) |-> Zero],
                           Entries(st, obs), Keys(Entries(st, obs)))}})

\* the value _build_exp_freq_mat stores in cell i
ExpCell(table, i) ==
  IF i[1] = i[2] THEN RMul(table[i[1]], table[i[1]])
  ELSE RMul(Two, RMul(table[i[1]], table[i[2]]))

\* _build_exp_freq_mat once exp_freq_mat = SeqMat(alphabet=..., build_later=1)
\* is built (c): the loop and the type
ExpFill(tab, c) ==
  IF \E i \in Keys(Entries(c.st, c.mat)) :
        i[1] \notin DOMAIN tab.table \/ i[2] \notin DOMAIN tab.table
  THEN Fail("KeyError", c.st)
  ELSE [err |-> "none",
        st |-> [c.st EXCEPT !.dicts[c.mat.data] =
                   [i \in Keys(Entries(c.st, c.mat)) |-> ExpCell(tab.table, i)]],
        mat |-> [c.mat EXCEPT !.mat_type = EXPFREQ]]

\* _build_exp_freq_mat(exp_freq_table)
BuildExpFreqMat(st, tab) ==
  Only({ExpFill(tab, c) : c \in {SeqMatInit(st, 0, tab.alphabet, NOTYPE, TRUE)}})

\* the loop of _build_subs_mat: subs_mat[i] = obs_freq_mat[i]/exp_freq_mat[i]
RECURSIVE SubsLoop(_, _, _, _, _)
SubsLoop(st, obsId, expId, subsId, S) ==
  IF S = {} THEN st
  ELSE LET i == CHOOSE x \in S : TRUE
       IN SubsLoop([st EXCEPT !.dicts[subsId] =
                        DictSet(@, i, RDiv(st.dicts[obsId][i], st.dicts[expId][i]))],
                   obsId, expId, subsId, S \ {i})

\* _build_subs_mat once subs_mat = SeqMat(obs_freq_mat) is built (c)
SubsFill(st, obs, exp, c) ==
  IF c.err # "none" THEN Fail(c.err, c.st)
  ELSE IF \E i \in Keys(Entries(st, obs)) : i \notin Keys(Entries(st, exp))
       THEN Fail("KeyError", c.st)
  ELSE IF \E i \in Keys(Entries(st, obs)) : Entries(st, exp)[i] = Zero
       THEN Fail("ZeroDivisionError", c.st)
  ELSE [err |-> "none",
        st |-> SubsLoop(c.st, obs.data, exp.data, c.mat.data, Keys(Entries(st, obs))),
        mat |-> [c.mat EXCEPT !.mat_type = SUBS]]

\* _build_subs_mat(obs_freq_mat, exp_freq_mat)
BuildSubsMat(st, obs, exp) ==
  IF obs.ab_list # exp.ab_list THEN Fail("ValueError", st)
  ELSE Only({SubsFill(st, obs, exp, c) : c \in {SeqMatInit(st, obs.data, 0, NOTYPE, FALSE)}})

\* 10**((2k-1)/20) for k = 1..10, times 100000: where round(10*log10(x)) steps
\* from k-1 to k for x in [1, 10)
Steps == <<112202, 141254, 177828, 223872, 281838, 354813, 446684, 562341,
           707946, 891251>>

\* round(10*log10(x)) for a rational x >= 1
RECURSIVE LogRoundUp(_)
LogRoundUp(x) ==
  IF ~RLess(x, Num(10)) THEN 10 + LogRoundUp(RDiv(x, Num(10)))
  ELSE Cardinality({k \in 1..10 : x[1] * 100000 >= Steps[k] * x[2]})

\* the ratio itself, no logarithm taken
LogOddsValueRatio(x) == x

\* round(factor*log(x)/log(logbase), round_digit) with the defaults
\* logbase=10, factor=10.0, round_digit=0, for x > 0
LogOddsValue(x) ==
  IF RLess(x, One) THEN Num(-LogRoundUp(RDiv(One, x))) ELSE Num(LogRoundUp(x))

\* the loop of _build_log_odds_mat
RECURSIVE LogOddsLoop(_, _, _, _)
LogOddsLoop(st, subsId, loId, S) ==
  IF S = {} THEN st
  ELSE LET i == CHOOSE x \in S : TRUE
       IN LogOddsLoop([st EXCEPT !.dicts[loId] =
                           DictSet(@, i, LogOddsValue(st.dicts[subsId][i]))],
                      subsId, loId, S \ {i})

\* _build_log_odds_mat once lo_mat = SeqMat(subs_mat) is built (c)
LogOddsFill(st, subs, c) ==
  IF c.err # "none" THEN Fail(c.err, c.st)
  ELSE IF \E i \in Keys(Entries(st, subs)) : ~RLess(Zero, Entries(st, subs)[i])
       THEN Fail("ValueError", c.st)
  ELSE [err |-> "none",
        st |-> LogOddsLoop(c.st, subs.data, c.mat.data, Keys(Entries(st, subs))),
        mat |-> [c.mat EXCEPT !.mat_type = LO]]

\* _build_log_odds_mat(subs_mat) with the default logbase, factor, round_digit
BuildLogOddsMat(st, subs) ==
  Only({LogOddsFill(st, subs, c) : c \in {SeqMatInit(st, subs.data, 0, NOTYPE, FALSE)}})

-----------------------------------------------------------------------------
(* make_log_odds_matrix(acc_rep_mat) with no exp_freq_table: its locals after *)
(* the call (obs, tab, exp, subs, lo), the stages it called in order, the     *)
(* exception raised and the heaps.  Each MakeN is the function from its Nth   *)
(* statement on.                                                               *)

NoLocals == [obs |-> NoMat, tab |-> NoTable, exp |-> NoMat, subs |-> NoMat, lo |-> NoMat]

Make5(l, r4) ==
  IF r4.err # "none"
  THEN l @@ [err |-> r4.err, st |-> r4.st, calls |-> <<"obs", "table", "exp", "subs">>]
  ELSE Only({[l EXCEPT !.subs = r4.mat, !.lo = r5.mat]
             @@ [err |-> r5.err, st |-> r5.st,
                 calls |-> <<"obs", "table", "exp", "subs", "lo">>] :
               r5 \in {BuildLogOddsMat(r4.st, r4.mat)}})

Make4(l, r3) ==
  IF r3.err # "none"
  THEN l @@ [err |-> r3.err, st |-> r3.st, calls |-> <<"obs", "table", "exp">>]
  ELSE Only({Make5([l EXCEPT !.exp = r3.mat], r4) :
               r4 \in {BuildSubsMat(r3.st, l.obs, r3.mat)}})

Make3(l, r2) ==
  IF r2.err # "none"
  THEN l @@ [err |-> r2.err, st |-> r2.st, calls |-> <<"obs", "table">>]
  ELSE Only({Make4([l EXCEPT !.tab = r2.tab], r3) : r3 \in {BuildExpFreqMat(r2.st, r2.tab)}})

Make2(r1) ==
  IF r1.err # "none"
  THEN NoLocals @@ [err |-> r1.err, st |-> r1.st, calls |-> <<"obs">>]
  ELSE Only({Make3([NoLocals EXCEPT !.obs = r1.mat], r2) :
               r2 \in {ExpFreqTableFromObsFreq(r1.st, r1.mat)}})

MakeLogOddsMatrixOp(st, acc_rep) ==
  Only({Make2(r1) : r1 \in {BuildObsFreqMat(st, acc_rep)}})

-----
(* The state. *)

VARIABLES
  heap,            \* [dicts, alphs]: the dict objects and the Alphabet objects
  data,            \* the caller's dict (an index of heap.dicts), 0 for None
  acc_rep_mat,     \* the SeqMat the caller constructed, NoMat before that
  deferred,        \* the build_later the caller constructed it with
  obs_freq_mat,    \* the result of _build_obs_freq_mat
  exp_freq_table,  \* the result of _exp_freq_table_from_obs_freq
  exp_freq_mat,    \* the result of _build_exp_freq_mat
  subs_mat,        \* the result of _build_subs_mat
  lo_mat,          \* the result of _build_log_odds_mat / make_log_odds_matrix
  printed,         \* the cells the last call, a print_mat, looked up: <<i, j>> -> value
  err,             \* the exception the last call raised, "none" if it returned
  op,              \* the last call
  calls,           \* the stages the last make_log_odds_matrix called, in order
  writes           \* the number of cell assignments so far

vars == <<heap, data, acc_rep_mat, deferred, obs_freq_mat, exp_freq_table, exp_freq_mat,
          subs_mat, lo_mat, printed, err, op, calls, writes>>

\* The dicts a caller passes: any set of keys; the values count replacements,
\* dg on the diagonal, lo for a key in (low, high) order, up for one in
\* (high, low) order.
DataInputs ==
  {[k \in K |-> Num(IF k[1] = k[2] THEN v[1] ELSE IF k[1] < k[2] THEN v[2] ELSE v[3])] :
     K \in SUBSET Pairs, v \in (0..MaxVal) \X (0..MaxVal) \X (0..MaxVal)}

\* The letters of an Alphabet a caller passes: distinct letters in any order;
\* <<>> is an Alphabet with no letters, or no Alphabet at all.
AlphabetInputs ==
  {s \in UNION {[1..n -> Letters] : n \in 0..NumLetters} :
     \A x, y \in DOMAIN s : x # y => s[x] # s[y]}

Init ==
  /\ \/ \E d \in DataInputs : heap = [dicts |-> <<d>>, alphs |-> <<>>] /\ data = 1
     \/ heap = [dicts |-> <<>>, alphs |-> <<>>] /\ data = 0
  /\ acc_rep_mat = NoMat
  /\ deferred = FALSE
  /\ obs_freq_mat = NoMat
  /\ exp_freq_table = NoTable
  /\ exp_freq_mat = NoMat
  /\ subs_mat = NoMat
  /\ lo_mat = NoMat
  /\ printed = EmptyDict
  /\ err = "none"
  /\ op = "start"
  /\ calls = <<>>
  /\ writes = 0

Idle == err = "none" /\ acc_rep_mat # NoMat
Fresh == obs_freq_mat = NoMat /\ lo_mat = NoMat

\* acc_rep_mat = SeqMat(data, Alphabet(letters), ACCREP, build_later=build_later),
\* or SeqMat(data, None, ...) for no letters; data is passed only to a
\* constructor that is not deferred
Construct(letters, build_later) ==
  /\ acc_rep_mat = NoMat /\ err = "none"
  /\ build_later => data = 0
  /\ \E st0 \in {IF letters = <<>> THEN heap ELSE [heap EXCEPT !.alphs = Append(@, letters)]} :
       \E r \in {SeqMatInit(st0, data, Len(st0.alphs), ACCREP, build_later)} :
        \* when the constructor raises, the objects of the call are garbage
        /\ heap' = IF r.err = "none" THEN r.st ELSE heap
        /\ acc_rep_mat' = r.mat
        /\ err' = r.err
  /\ deferred' = build_later
  /\ op' = "SeqMat"
  /\ UNCHANGED <<data, obs_freq_mat, exp_freq_table, exp_freq_mat, subs_mat, lo_mat,
                 printed, calls, writes>>

\* acc_rep_mat.print_mat(alphabet=order): the values it looks up, row by row
PrintMat(order) ==
  /\ Idle /\ Fresh /\ writes = 0 /\ op # "print_mat"
  /\ order = <<>> \/ SeqSet(order) = SeqSet(acc_rep_mat.ab_list)
  /\ LET alphabet == IF order = <<>> THEN acc_rep_mat.ab_list ELSE order
         cells == SeqSet(LoopPairs(alphabet))
         out == [c \in cells |-> PrintLookup(heap, acc_rep_mat, c[1], c[2])]
     IN /\ printed' = out
        /\ err' = IF \E c \in cells : out[c] = KeyError THEN "KeyError" ELSE "none"
  /\ op' = "print_mat"
  /\ UNCHANGED <<heap, data, acc_rep_mat, deferred, obs_freq_mat, exp_freq_table, exp_freq_mat,
                 subs_mat, lo_mat, calls, writes>>

\* acc_rep_mat[k] = v (UserDict.__setitem__)
SetItem(k, v) ==
  /\ Idle /\ Fresh /\ writes < MaxWrites
  /\ heap' = [heap EXCEPT !.dicts[acc_rep_mat.data] = DictSet(@, k, Num(v))]
  /\ writes' = writes + 1
  /\ op' = "setitem"
  /\ UNCHANGED <<data, acc_rep_mat, deferred, obs_freq_mat, exp_freq_table, exp_freq_mat,
                 subs_mat, lo_mat, printed, err, calls>>

\* acc_rep_mat.all_letters_sum()
CallAllLettersSum ==
  /\ Idle /\ Fresh
  /\ acc_rep_mat' = [acc_rep_mat EXCEPT !.sum_letters = AllLettersSum(heap, acc_rep_mat)]
  /\ op' = "all_letters_sum"
  /\ UNCHANGED <<heap, data, deferred, obs_freq_mat, exp_freq_table, exp_freq_mat,
                 subs_mat, lo_mat, printed, err, calls, writes>>

\* obs_freq_mat = _build_obs_freq_mat(acc_rep_mat)
CallBuildObsFreqMat ==
  /\ Idle /\ Fresh
  /\ \E r \in {BuildObsFreqMat(heap, acc_rep_mat)} :
       heap' = r.st /\ obs_freq_mat' = r.mat /\ err' = r.err
  /\ op' = "_build_obs_freq_mat"
  /\ UNCHANGED <<data, acc_rep_mat, deferred, exp_freq_table, exp_freq_mat, subs_mat, lo_mat,
                 calls, writes>>
  /\ printed' = EmptyDict

\* exp_freq_table = _exp_freq_table_from_obs_freq(obs_freq_mat)
CallExpFreqTableFromObsFreq ==
  /\ Idle /\ op = "_build_obs_freq_mat"
  /\ \E r \in {ExpFreqTableFromObsFreq(heap, obs_freq_mat)} :
       heap' = r.st /\ exp_freq_table' = r.tab /\ err' = r.err
  /\ op' = "_exp_freq_table_from_obs_freq"
  /\ UNCHANGED <<data, acc_rep_mat, deferred, obs_freq_mat, exp_freq_mat, subs_mat, lo_mat,
                 calls, writes>>
  /\ printed' = EmptyDict

\* exp_freq_mat = _build_exp_freq_mat(exp_freq_table)
CallBuildExpFreqMat ==
  /\ Idle /\ op = "_exp_freq_table_from_obs_freq"
  /\ \E r \in {BuildExpFreqMat(heap, exp_freq_table)} :
       heap' = r.st /\ exp_freq_mat' = r.mat /\ err' = r.err
  /\ op' = "_build_exp_freq_mat"
  /\ UNCHANGED <<data, acc_rep_mat, deferred, obs_freq_mat, exp_freq_table, subs_mat, lo_mat,
                 calls, writes>>
  /\ printed' = EmptyDict

\* subs_mat = _build_subs_mat(obs_freq_mat, exp_freq_mat)
CallBuildSubsMat ==
  /\ Idle /\ op = "_build_exp_freq_mat"
  /\ \E r \in {BuildSubsMat(heap, obs_freq_mat, exp_freq_mat)} :
       heap' = r.st /\ subs_mat' = r.mat /\ err' = r.err
  /\ op' = "_build_subs_mat"
  /\ UNCHANGED <<data, acc_rep_mat, deferred, obs_freq_mat, exp_freq_table, exp_freq_mat, lo_mat,
                 calls, writes>>
  /\ printed' = EmptyDict

\* lo_mat = _build_log_odds_mat(subs_mat)
CallBuildLogOddsMat ==
  /\ Idle /\ op = "_build_subs_mat"
  /\ \E r \in {BuildLogOddsMat(heap, subs_mat)} :
       heap' = r.st /\ lo_mat' = r.mat /\ err' = r.err
  /\ op' = "_build_log_odds_mat"
  /\ UNCHANGED <<data, acc_rep_mat, deferred, obs_freq_mat, exp_freq_table, exp_freq_mat, subs_mat,
                 calls, writes>>
  /\ printed' = EmptyDict

\* lo_mat = make_log_odds_matrix(acc_rep_mat); the slots of the stages show its locals
CallMakeLogOddsMatrix ==
  /\ Idle /\ Fresh
  /\ \E r \in {MakeLogOddsMatrixOp(heap, acc_rep_mat)} :
       /\ heap' = r.st
        /\ obs_freq_mat' = r.obs
        /\ exp_freq_table' = r.tab
        /\ exp_freq_mat' = r.exp
        /\ subs_mat' = r.subs
        /\ lo_mat' = r.lo
        /\ err' = r.err
        /\ calls' = r.calls
  /\ op' = "make_log_odds_matrix"
  /\ printed' = EmptyDict
  /\ UNCHANGED <<data, acc_rep_mat, deferred, writes>>

\* A caller that constructs a matrix, prints it and runs the pipeline.
Next ==
  \/ \E letters \in AlphabetInputs, build_later \in BOOLEAN : Construct(letters, build_later)
  \/ \E order \in AlphabetInputs : PrintMat(order)
  \/ CallBuildObsFreqMat
  \/ CallExpFreqTableFromObsFreq
  \/ CallBuildExpFreqMat
  \/ CallBuildSubsMat
  \/ CallBuildLogOddsMat
  \/ CallMakeLogOddsMatrix

Spec == Init /\ [][Next]_vars

\* A caller that constructs a matrix, assigns cells and asks for the letter sums.
NextCache ==
  \/ \E letters \in AlphabetInputs, build_later \in BOOLEAN : Construct(letters, build_later)
  \/ \E k \in Pairs, v \in 0..MaxVal : SetItem(k, v)
  \/ CallAllLettersSum

SpecCache == Init /\ [][NextCache]_vars

-----------------------------------------------------------------------------
(* Predicates on the state. *)

\* the letters of a matrix's alphabet
Alpha(m) == SeqSet(LettersOf(heap, m))

\* the keys of a half matrix over sorted letters: (low, high), and the diagonal
HalfKeys(ab_list) == {<<ab_list[x], ab_list[y]>> : x, y \in 1..Len(ab_list)} \cap
                     {k \in Pairs : k[1] <= k[2]}

IsHalfMatrix(m) == Keys(Entries(heap, m)) = HalfKeys(m.ab_list)

\* K holds one key for each unordered pair of letters of L, and no other key
OnePerPair(K, L) ==
  /\ K \subseteq L \X L
  /\ \A a, b \in L : IF a = b THEN <<a, a>> \in K
                     ELSE (<<a, b>> \in K) # (<<b, a>> \in K)

Constructed == acc_rep_mat # NoMat
Input == heap.dicts[data]
\* the caller's dict is a full matrix over the alphabet of the matrix built from it
InputFull == data # 0 /\ Keys(Input) = Alpha(acc_rep_mat) \X Alpha(acc_rep_mat)
\* the caller's dict holds one key for each unordered pair of that alphabet
InputOnePerPair == data # 0 /\ OnePerPair(Keys(Input), Alpha(acc_rep_mat))

\* the matrices a constructor that is not deferred has built
NonDeferred ==
  (IF Constructed /\ ~deferred THEN {acc_rep_mat} ELSE {})
  \cup ({subs_mat, lo_mat} \ {NoMat})

HalfSize(N) == (N * (N + 1)) \div 2

-----------------------------------------------------------------------------
(* C1 *)

\* C1 as stated: in every constructed SeqMat, for all letters a, b of its
\* alphabet, self[a,b] and self[b,a] both succeed and give the same value.
C1_LookupBothOrders ==
  Constructed =>
    \A a, b \in Alpha(acc_rep_mat) :
      /\ GetItem(heap, acc_rep_mat, <<a, b>>) # KeyError
      /\ GetItem(heap, acc_rep_mat, <<b, a>>) # KeyError
      /\ GetItem(heap, acc_rep_mat, <<a, b>>) = GetItem(heap, acc_rep_mat, <<b, a>>)

\* C1 amended: in a constructed SeqMat that holds one entry for each unordered
\* pair of its alphabet, the lookup of print_mat (self[a,b], and on KeyError
\* self[b,a]) succeeds for (a,b) and for (b,a) and gives the same stored value,
\* so print_mat succeeds in any order of the letters and prints that value.
C1_PrintLookupSymmetric ==
  (Constructed /\ OnePerPair(Keys(Entries(heap, acc_rep_mat)), Alpha(acc_rep_mat))) =>
    /\ \A a, b \in Alpha(acc_rep_mat) :
         /\ PrintLookup(heap, acc_rep_mat, a, b) # KeyError
         /\ PrintLookup(heap, acc_rep_mat, a, b) = PrintLookup(heap, acc_rep_mat, b, a)
    /\ op = "print_mat" =>
         /\ err = "none"
         /\ \A c \in DOMAIN printed :
              /\ printed[c] # KeyError
              /\ printed[c] \in {GetItem(heap, acc_rep_mat, c),
                                 GetItem(heap, acc_rep_mat, <<c[2], c[1]>>)}

\* print_mat has printed, in reverse order of the letters, a matrix folded from
\* a full matrix whose two off-diagonal counts differ
C1_Witness ==
  /\ op = "print_mat" /\ InputFull /\ Cardinality(Alpha(acc_rep_mat)) >= 2
  /\ <<1, 2>> \in DOMAIN printed
  /\ Input[<<1, 2>>] # Input[<<2, 1>>]
  /\ printed[<<1, 2>>] = RAdd(Input[<<1, 2>>], Input[<<2, 1>>])

-----------------------------------------------------------------------------
(* C2 *)

\* C2: every SeqMat a constructor that is not deferred has built holds
\* N*(N+1)/2 entries, N the number of letters of its alphabet.
C2_HalfSize ==
  \A m \in NonDeferred :
    Cardinality(Keys(Entries(heap, m))) = HalfSize(Len(LettersOf(heap, m)))

\* a matrix of two or more letters was built from a dict of N*N entries
C2_Witness ==
  /\ Constructed /\ ~deferred /\ data # 0
  /\ Len(LettersOf(heap, acc_rep_mat)) >= 2
  /\ Cardinality(Keys(Input)) = Len(LettersOf(heap, acc_rep_mat)) * Len(LettersOf(heap, acc_rep_mat))

-----------------------------------------------------------------------------
(* C3 *)

\* C3 as stated, for the dicts it names (keys that are pairs of letters of the
\* alphabet, in any order): a SeqMat built from one by a constructor that is not
\* deferred holds one entry for each unordered pair of its alphabet, and never
\* both (a,b) and (b,a).
C3_OnePerPairAnyData ==
  (Constructed /\ ~deferred /\ data # 0
     /\ Keys(Input) \subseteq Alpha(acc_rep_mat) \X Alpha(acc_rep_mat)) =>
    OnePerPair(Keys(Entries(heap, acc_rep_mat)), Alpha(acc_rep_mat))

\* C3 amended: that holds when the dict passed is a full matrix over the
\* alphabet (all N*N ordered pairs) or itself holds one key for each unordered
\* pair of the alphabet, in whatever order the two letters of a key are.
C3_OnePerPairGoodData ==
  (Constructed /\ ~deferred /\ (InputFull \/ InputOnePerPair)) =>
    OnePerPair(Keys(Entries(heap, acc_rep_mat)), Alpha(acc_rep_mat))

\* a matrix of two or more letters was built from a full matrix
C3_Witness ==
  /\ Constructed /\ ~deferred /\ InputFull
  /\ Cardinality(Alpha(acc_rep_mat)) >= 2
  /\ <<2, 1>> \in Keys(Input) /\ <<2, 1>> \notin Keys(Entries(heap, acc_rep_mat))

-----------------------------------------------------------------------------
(* C4 *)

\* C4: a SeqMat built from a full matrix holds, for every a before b in sorted
\* order, full[a,b] + full[b,a] in cell (a,b) and no key (b,a), and full[a,a]
\* in every cell (a,a).
C4_FoldSums ==
  (Constructed /\ ~deferred /\ InputFull) =>
    \A a, b \in Alpha(acc_rep_mat) :
      /\ a < b => /\ GetItem(heap, acc_rep_mat, <<a, b>>)
                       = RAdd(Input[<<a, b>>], Input[<<b, a>>])
                  /\ <<b, a>> \notin Keys(Entries(heap, acc_rep_mat))
      /\ a = b => GetItem(heap, acc_rep_mat, <<a, a>>) = Input[<<a, a>>]

\* a full matrix with different non-zero counts for (1,2) and (2,1) was folded
C4_Witness ==
  /\ Constructed /\ ~deferred /\ InputFull /\ {1, 2} \subseteq Alpha(acc_rep_mat)
  /\ Input[<<1, 2>>] # Input[<<2, 1>>]
  /\ Input[<<1, 2>>] # Zero /\ Input[<<2, 1>>] # Zero /\ Input[<<1, 1>>] # Zero

-----------------------------------------------------------------------------
(* C5 *)

ObsRan == op \in {"_build_obs_freq_mat", "make_log_odds_matrix"}

\* C5: for an accepted-replacement half matrix with a non-zero total,
\* _build_obs_freq_mat returns a matrix of type OBSFREQ with the keys of the
\* input, each cell input[pair]/total, and the values sum to 1.
C5_ObsFreq ==
  (ObsRan /\ IsHalfMatrix(acc_rep_mat) /\ SumValues(Entries(heap, acc_rep_mat)) # Zero) =>
    /\ obs_freq_mat # NoMat
    /\ obs_freq_mat.mat_type = OBSFREQ
    /\ Keys(Entries(heap, obs_freq_mat)) = Keys(Entries(heap, acc_rep_mat))
    /\ \A k \in Keys(Entries(heap, acc_rep_mat)) :
         Entries(heap, obs_freq_mat)[k]
           = RDiv(Entries(heap, acc_rep_mat)[k], SumValues(Entries(heap, acc_rep_mat)))
    /\ SumValues(Entries(heap, obs_freq_mat)) = One

\* _build_obs_freq_mat returned for a two-letter half matrix with three
\* different non-zero counts
C5_Witness ==
  /\ op = "_build_obs_freq_mat" /\ err = "none" /\ IsHalfMatrix(acc_rep_mat)
  /\ acc_rep_mat.ab_list = <<1, 2>>
  /\ Entries(heap, obs_freq_mat)[<<1, 1>>] # Zero
  /\ Entries(heap, obs_freq_mat)[<<1, 2>>] # Zero
  /\ Entries(heap, obs_freq_mat)[<<1, 1>>] # Entries(heap, obs_freq_mat)[<<1, 2>>]

-----------------------------------------------------------------------------
(* C6 *)

\* C6: when make_log_odds_matrix, called with no table, returns, it has called
\* the five stages in order and its result has type LO and the keys of its
\* input; and when every observed frequency equals the expected one, every
\* cell of the result is 0.
C6_MakeLogOdds ==
  (op = "make_log_odds_matrix" /\ err = "none") =>
    /\ calls = <<"obs", "table", "exp", "subs", "lo">>
    /\ lo_mat # NoMat
    /\ lo_mat.mat_type = LO
    /\ Keys(Entries(heap, lo_mat)) = Keys(Entries(heap, acc_rep_mat))
    /\ (\A k \in Keys(Entries(heap, obs_freq_mat)) :
          Entries(heap, obs_freq_mat)[k] = Entries(heap, exp_freq_mat)[k])
       => \A k \in Keys(Entries(heap, lo_mat)) : Entries(heap, lo_mat)[k] = Zero

\* make_log_odds_matrix returned all zeros for {A,A}: c, {C,C}: c, {A,C}: 2c
C6_Witness ==
  /\ op = "make_log_odds_matrix" /\ err = "none"
  /\ acc_rep_mat.ab_list = <<1, 2>>
  /\ Entries(heap, acc_rep_mat)[<<1, 1>>] = Entries(heap, acc_rep_mat)[<<2, 2>>]
  /\ Entries(heap, acc_rep_mat)[<<1, 2>>]
       = RMul(Two, Entries(heap, acc_rep_mat)[<<1, 1>>])
  /\ \A k \in Keys(Entries(heap, lo_mat)) : Entries(heap, lo_mat)[k] = Zero

-----------------------------------------------------------------------------
(* C7 *)

\* C7 as stated: for every input whose values total 0, _build_obs_freq_mat
\* raises and returns no observed-frequency matrix.
C7_ZeroTotalFails ==
  (ObsRan /\ SumValues(Entries(heap, acc_rep_mat)) = Zero) =>
    err # "none" /\ obs_freq_mat = NoMat

\* C7 amended: for every input with at least one entry whose values total 0,
\* _build_obs_freq_mat raises (ZeroDivisionError) and returns no matrix.
C7_ZeroTotalFailsNonEmpty ==
  (ObsRan /\ Keys(Entries(heap, acc_rep_mat)) # {}
     /\ SumValues(Entries(heap, acc_rep_mat)) = Zero) =>
    err = "ZeroDivisionError" /\ obs_freq_mat = NoMat

\* _build_obs_freq_mat was called on a two-letter matrix of zeros
C7_Witness ==
  /\ op = "_build_obs_freq_mat" /\ err = "ZeroDivisionError"
  /\ Cardinality(Keys(Entries(heap, acc_rep_mat))) = 3
  /\ SumValues(Entries(heap, acc_rep_mat)) = Zero

-----------------------------------------------------------------------------
(* C8 *)

\* C8: the table _exp_freq_table_from_obs_freq builds from an observed
\* frequency matrix whose values sum to 1 has values that sum to 1.
C8_TableSumsToOne ==
  (exp_freq_table # NoTable /\ SumValues(Entries(heap, obs_freq_mat)) = One) =>
    /\ DOMAIN exp_freq_table.table = Alpha(obs_freq_mat)
    /\ SumValues(exp_freq_table.table) = One

\* a table was built from a matrix with a non-zero off-diagonal cell and a
\* non-zero diagonal cell
C8_Witness ==
  /\ op = "_exp_freq_table_from_obs_freq" /\ err = "none"
  /\ obs_freq_mat.ab_list = <<1, 2>> /\ IsHalfMatrix(obs_freq_mat)
  /\ Entries(heap, obs_freq_mat)[<<1, 2>>] # Zero
  /\ Entries(heap, obs_freq_mat)[<<2, 2>>] # Zero
  /\ exp_freq_table.table[1]
       = RAdd(Entries(heap, obs_freq_mat)[<<1, 1>>],
              RDiv(Entries(heap, obs_freq_mat)[<<1, 2>>], Two))

-----------------------------------------------------------------------------
(* C9 *)

StageOps == {"_build_obs_freq_mat", "_exp_freq_table_from_obs_freq",
             "_build_exp_freq_mat", "_build_subs_mat", "_build_log_odds_mat",
             "make_log_odds_matrix"}

\* the matrices there are
Live == {acc_rep_mat, obs_freq_mat, exp_freq_mat, subs_mat, lo_mat} \ {NoMat}

\* C9: a stage, and make_log_odds_matrix, leaves every matrix there was as it
\* was (entries, type, alphabet), and what it returns is a new object whose
\* entries are a dict of its own: the writes to it change no other matrix.
C9_StagesLeaveInputs ==
  [][op' \in StageOps =>
       /\ \A m \in Live :
            /\ m \in Live'
            /\ heap'.dicts[m.data] = heap.dicts[m.data]
            /\ heap'.alphs[m.alphabet] = heap.alphs[m.alphabet]
       /\ \A n \in Live' \ Live :
            /\ n.data > Len(heap.dicts)
            /\ \A m \in Live' : m # n => m.data # n.data]_vars

\* _build_subs_mat returned a matrix whose entries differ from those of the
\* observed frequency matrix it copied
C9_Witness ==
  /\ op = "_build_subs_mat" /\ err = "none"
  /\ subs_mat # NoMat /\ subs_mat.mat_type = SUBS /\ obs_freq_mat.mat_type = OBSFREQ
  /\ Keys(Entries(heap, subs_mat)) # {}
  /\ Entries(heap, subs_mat) # Entries(heap, obs_freq_mat)

-----------------------------------------------------------------------------
(* C10 *)

\* C10 as stated: every entry of sum_letters is the letter_sum of its letter
\* now, whatever cells were assigned since all_letters_sum.
C10_CacheNeverStale ==
  Constructed =>
    \A l \in DOMAIN acc_rep_mat.sum_letters :
      acc_rep_mat.sum_letters[l] = LetterSum(heap, acc_rep_mat, l)

=============================================================================
